---- MODULE Spec2Model ----
(***************************************************************************)
(* Model of lab01/main.py: the ballistic trajectory integrator             *)
(* (BallisticApp.run_simulation), the results history, clear_results and   *)
(* the frame downsampling of animate_new_trajectory.                       *)
(*                                                                         *)
(* Python floats are binary floating-point numbers.  They are modelled as  *)
(* binary floating-point numbers of reduced precision and range: a value   *)
(* is a pair <<m, e>> standing for m * 2^e, with a Prec-bit normalised     *)
(* mantissa, every arithmetic operation rounding its exact result to       *)
(* nearest, ties to even, as IEEE-754 does, with the two infinities and    *)
(* NaN for results out of range, and with the exceptions Python raises in  *)
(* place of some of them.  Results below the smallest exponent become      *)
(* zero at once; the format has no subnormal numbers.                      *)
(***************************************************************************)
EXTENDS Integers, Sequences, FiniteSets, TLC

\* ------------------------------------------------------------------ bounds
Prec == 4          \* mantissa bits of the modelled float format
EMax == 120         \* largest exponent of a finite value
EMin == 0 - EMax    \* smallest exponent; smaller results flush to zero
MaxRuns == 3       \* most runs one behaviour of the application starts
MaxLen == 1700     \* longest trajectory handed to the animation model
MaxSteps == 64     \* most samples one run records before the model stops it

\* ------------------------------------------------------- float arithmetic
\* A finite value is <<m, e>> with EMin <= e <= EMax; the exponent EMax + 1
\* marks the IEEE special values.  Raised stands for the Python exception an
\* operation raises (OverflowError of **, ZeroDivisionError of /, ValueError
\* of math.sqrt); every operation passes it on.  The two zeros are one value:
\* the program's comparisons, divisions and square roots treat them alike.
Zero == <<0, 0>>
PosInf == <<1, EMax + 1>>
NegInf == <<0 - 1, EMax + 1>>
NaN == <<0, EMax + 1>>
Raised == <<0, EMax + 2>>

Float == Int \X Int

IsNaN(a) == a = NaN
IsInf(a) == a = PosInf \/ a = NegInf
IsFinite(a) == a[2] <= EMax
Abs(n) == IF n < 0 THEN 0 - n ELSE n
Sgn(n) == IF n < 0 THEN 0 - 1 ELSE IF n > 0 THEN 1 ELSE 0

RECURSIVE BitLen(_)
BitLen(n) == IF n = 0 THEN 0 ELSE 1 + BitLen(n \div 2)

\* The arithmetic is defined as functions, which take evaluated arguments,
\* with an operator of the same name in front of each.

\* round the exact value m * 2^e to the format (nearest, ties to even);
\* too large a result is an infinity, too small a one is zero
NormV[m \in Int, e \in Int] ==
  IF m = 0 THEN Zero
  ELSE LET a  == Abs(m)
           L  == BitLen(a)
           sh == L - Prec
           q  == IF sh <= 0 THEN a * 2^(0 - sh) ELSE a \div 2^sh
           r  == IF sh <= 0 THEN 0 ELSE a % 2^sh
           hf == IF sh <= 0 THEN 1 ELSE 2^(sh - 1)
           up == sh > 0 /\ (r > hf \/ (r = hf /\ q % 2 = 1))
           q1 == IF up THEN q + 1 ELSE q
           mm == IF q1 = 2^Prec THEN 2^(Prec - 1) ELSE q1
           ee == IF q1 = 2^Prec THEN e + sh + 1 ELSE e + sh
       IN  IF ee > EMax THEN <<Sgn(m), EMax + 1>>
           ELSE IF ee < EMin THEN Zero
           ELSE <<Sgn(m) * mm, ee>>
Norm(m, e) == NormV[m, e]

\* -a
NegV[a \in Float] == IF a = Raised THEN Raised ELSE <<0 - a[1], a[2]>>
Neg(a) == NegV[a]

\* a * b
MulV[a \in Float, b \in Float] ==
  IF a = Raised \/ b = Raised THEN Raised
  ELSE IF IsNaN(a) \/ IsNaN(b) THEN NaN
  ELSE IF IsInf(a) \/ IsInf(b)
       THEN IF a = Zero \/ b = Zero THEN NaN
            ELSE <<Sgn(a[1]) * Sgn(b[1]), EMax + 1>>
  ELSE Norm(a[1] * b[1], a[2] + b[2])
Mul(a, b) == MulV[a, b]

\* a + b
AddV[a \in Float, b \in Float] ==
  IF a = Raised \/ b = Raised THEN Raised
  ELSE IF IsNaN(a) \/ IsNaN(b) THEN NaN
  ELSE IF IsInf(a) /\ IsInf(b) THEN (IF a = b THEN a ELSE NaN)
  ELSE IF IsInf(a) THEN a
  ELSE IF IsInf(b) THEN b
  ELSE IF a[1] = 0 THEN b
  ELSE IF b[1] = 0 THEN a
  ELSE IF a[2] - b[2] >= Prec + 2 THEN a
  ELSE IF b[2] - a[2] >= Prec + 2 THEN b
  ELSE IF a[2] >= b[2] THEN Norm(a[1] * 2^(a[2] - b[2]) + b[1], b[2])
  ELSE Norm(a[1] + b[1] * 2^(b[2] - a[2]), a[2])
Add(a, b) == AddV[a, b]

\* a - b
Sub(a, b) == Add(a, Neg(b))

\* the rational n/d (d > 0) times 2^e, rounded once; k guard bits
RoundRatV[n \in Int, d \in Int, e \in Int, k \in Int] ==
  LET q  == (Abs(n) * 2^k) \div d
      st == IF (Abs(n) * 2^k) % d = 0 THEN 0 ELSE 1
  IN  Norm(Sgn(n) * (2 * q + st), e - k - 1)
RoundRat(n, d, e, k) == RoundRatV[n, d, e, k]

\* a / b; Python raises ZeroDivisionError when b is zero, whatever a is
DivV[a \in Float, b \in Float] ==
  IF a = Raised \/ b = Raised \/ b = Zero THEN Raised
  ELSE IF IsNaN(a) \/ IsNaN(b) THEN NaN
  ELSE IF IsInf(a)
       THEN IF IsInf(b) THEN NaN ELSE <<Sgn(a[1]) * Sgn(b[1]), EMax + 1>>
  ELSE IF IsInf(b) THEN Zero
  ELSE RoundRat(a[1] * Sgn(b[1]), Abs(b[1]), a[2] - b[2], Prec + 2)
Div(a, b) == DivV[a, b]

\* a ** 2; Python raises OverflowError when a finite a squares to an
\* infinity, where a * a gives the infinity
Pow2V[a \in Float] ==
  IF IsFinite(a) /\ IsInf(Mul(a, a)) THEN Raised ELSE Mul(a, a)
Pow2(a) == Pow2V[a]

\* floor of the square root of n < 4^(b+1), one bit at a time from bit b down
RECURSIVE ISqrtBits(_, _, _)
ISqrtBits(n, r, b) ==
  IF b < 0 THEN r
  ELSE IF (r + 2^b) * (r + 2^b) <= n THEN ISqrtBits(n, r + 2^b, b - 1)
  ELSE ISqrtBits(n, r, b - 1)
ISqrt(n) == ISqrtBits(n, 0, Prec + 3)

\* math.sqrt(a); ValueError below zero
SqrtV[a \in Float] ==
  IF a = Raised \/ a[1] < 0 THEN Raised
  ELSE IF IsNaN(a) \/ a = PosInf \/ a = Zero THEN a
  ELSE LET k  == IF (a[2] - (Prec + 4)) % 2 = 0 THEN Prec + 4 ELSE Prec + 5
           n  == a[1] * 2^k
           r  == ISqrt(n)
           st == IF r * r = n THEN 0 ELSE 1
       IN  Norm(2 * r + st, ((a[2] - k) \div 2) - 1)
Sqrt(a) == SqrtV[a]

\* comparisons: exact, and false whenever an operand is a NaN
IsNeg(a) == a[1] < 0 /\ a # Raised
LessV[a \in Float, b \in Float] ==
  IF IsNaN(a) \/ IsNaN(b) \/ a = Raised \/ b = Raised THEN FALSE
  ELSE IF Sgn(a[1]) # Sgn(b[1]) THEN Sgn(a[1]) < Sgn(b[1])
  ELSE IF a[1] > 0 THEN a[2] < b[2] \/ (a[2] = b[2] /\ a[1] < b[1])
  ELSE IF a[1] < 0 THEN b[2] < a[2] \/ (a[2] = b[2] /\ a[1] < b[1])
  ELSE FALSE
Less(a, b) == LessV[a, b]
Greater(a, b) == Less(b, a)
GreaterEq(a, b) == Greater(a, b) \/ (a = b /\ ~IsNaN(a) /\ a # Raised)

\* a decimal literal n/d as the format reads it
Lit(n, d) == RoundRat(n, d, 0, Prec + 10)

\* an integer converted to a float
FromInt(n) == Norm(n, 0)

\* ---------------------------------------------------- program constants
g == Lit(981, 100)              \* self.g = 9.81
half == Lit(1, 2)               \* the literal 0.5 of the drag law
max_frames == 800

\* math.cos(math.radians(angle)) and math.sin(math.radians(angle)), as the
\* correctly rounded value at the angles the model launches at
Angles == {0 - 45, 0, 45, 60}
Cos(angle) ==
  CASE angle = 0 -> FromInt(1)
    [] angle = 45 -> Lit(7071, 10000)
    [] angle = 0 - 45 -> Lit(7071, 10000)
    [] angle = 60 -> Lit(5000, 10000)
Sin(angle) ==
  CASE angle = 0 -> Zero
    [] angle = 45 -> Lit(7071, 10000)
    [] angle = 0 - 45 -> Neg(Lit(7071, 10000))
    [] angle = 60 -> Lit(8660, 10000)

\* ------------------------------------------------------------------ state
VARIABLES
  pc,            \* "idle", "loop" (inside run_simulation's while), "fault"
  params,        \* the dictionary get_parameters returned for this run
  x, y, vx, vy, t, max_height, trajectory, speeds,   \* locals of the run
  results,       \* self.results
  color_index,   \* self.color_index
  anim,          \* the xs, ys handed to FuncAnimation
  table,         \* rows of self.tree
  info,          \* the result self.info_label shows, or "none"
  ever           \* history variable: parameters and result of every run that
                 \* completed, in run order; clear_results does not touch it

vars == <<pc, params, x, y, vx, vy, t, max_height, trajectory, speeds,
          results, color_index, anim, table, info, ever>>
locals == <<params, x, y, vx, vy, t, max_height, trajectory, speeds>>
display == <<results, color_index, anim, table, info, ever>>

NoParams == [v0 |-> Zero, angle |-> 0, mass |-> Zero, rho |-> Zero,
             Cd |-> Zero, A |-> Zero, dt |-> Zero]
NoAnim == [xs |-> <<>>, ys |-> <<>>]

\* --------------------------------------------------------------- engine
\* math.sqrt(vx * vx + vy * vy) of lines 179 and 197
Speed(ux, uy) == Sqrt(Add(Mul(ux, ux), Mul(uy, uy)))

\* math.sqrt(vx ** 2 + vy ** 2) of line 184
LoopSpeed(ux, uy) == Sqrt(Add(Pow2(ux), Pow2(uy)))

calculate_drag_force(v, p) ==
  Mul(Mul(Mul(Mul(half, p.rho), p.Cd), p.A), Pow2(v))

AccelX(ux, uy, p) ==
  LET v == LoopSpeed(ux, uy)
      drag == calculate_drag_force(v, p)
  IN  IF Greater(v, Zero) THEN Div(Mul(Neg(drag), ux), Mul(p.mass, v))
      ELSE Zero

AccelY_up(ux, uy, p) ==
  LET v == LoopSpeed(ux, uy)
      drag == calculate_drag_force(v, p)
  IN  IF Greater(v, Zero)
      THEN Sub(g, Div(Mul(drag, uy), Mul(p.mass, v)))
      ELSE g

AccelY(ux, uy, p) ==
  LET v == LoopSpeed(ux, uy)
      drag == calculate_drag_force(v, p)
  IN  IF Greater(v, Zero)
      THEN Sub(Neg(g), Div(Mul(drag, uy), Mul(p.mass, v)))
      ELSE Neg(g)

StepVel(u, a, dt) == Add(u, Mul(a, dt))

\* x += vx * dt after vx was updated (unew); uold is the velocity before it
StepPos(q, unew, uold, dt) == Add(q, Mul(unew, dt))

LoopGuard(h) == GreaterEq(h, Zero)

UpdateMaxHeight(mh, h) == IF Greater(h, mh) THEN h ELSE mh

StartX_carry ==
  IF results # <<>> THEN results[Len(results)].range ELSE Zero
StartX == Zero
StartMaxHeight == Zero
StartVx(p) == Mul(p.v0, Cos(p.angle))
StartVy(p) == Mul(p.v0, Sin(p.angle))
StartSpeed_v0(p) == p.v0
StartSpeed(p) == Speed(StartVx(p), StartVy(p))

\* lines 171-181: the locals when the while loop is first reached
Started(p) ==
  /\ params' = p
  /\ x' = StartX
  /\ y' = Zero
  /\ vx' = StartVx(p)
  /\ vy' = StartVy(p)
  /\ trajectory' = << <<StartX, Zero>> >>
  /\ speeds' = << StartSpeed(p) >>
  /\ t' = Zero
  /\ max_height' = StartMaxHeight
  /\ pc' = "loop"

\* no callback is running: the last one returned ("idle") or raised ("fault")
Idle == pc \in {"idle", "fault"}

run_simulation(p) ==
  /\ Idle
  /\ Len(ever) < MaxRuns
  /\ Started(p)
  /\ UNCHANGED display

\* the callback is over and its locals are gone
Discard ==
  /\ params' = NoParams
  /\ x' = Zero /\ y' = Zero /\ vx' = Zero /\ vy' = Zero /\ t' = Zero
  /\ max_height' = Zero /\ trajectory' = <<>> /\ speeds' = <<>>

\* lines 184-197: the values one iteration computes from the current ones;
\* raised tells whether line 184, 185, 187 or 188 raised an exception
Stepped(ux, uy, qx, qy, tt, p) ==
  LET v   == LoopSpeed(ux, uy)
      ax  == AccelX(ux, uy, p)
      ay  == AccelY(ux, uy, p)
      nvx == StepVel(ux, ax, p.dt)
      nvy == StepVel(uy, ay, p.dt)
  IN  [raised |-> Raised \in {v, calculate_drag_force(v, p), ax, ay},
       vx |-> nvx, vy |-> nvy,
       x |-> StepPos(qx, nvx, ux, p.dt),
       y |-> StepPos(qy, nvy, uy, p.dt),
       t |-> Add(tt, p.dt),
       speed |-> Speed(nvx, nvy)]

\* one iteration of the while loop, lines 183-200; an exception ends the
\* callback and leaves the history and the display as they were
LoopStep ==
  /\ pc = "loop"
  /\ LoopGuard(y)
  /\ Len(trajectory) < MaxSteps
  /\ \E s \in {Stepped(vx, vy, x, y, t, params)} :
       IF ~s.raised
       THEN /\ vx' = s.vx
            /\ vy' = s.vy
            /\ x' = s.x
            /\ y' = s.y
            /\ t' = s.t
            /\ trajectory' = Append(trajectory, <<s.x, s.y>>)
            /\ speeds' = Append(speeds, s.speed)
            /\ max_height' = UpdateMaxHeight(max_height, s.y)
            /\ pc' = "loop"
            /\ UNCHANGED params
       ELSE /\ pc' = "fault"
            /\ Discard
  /\ UNCHANGED display

\* ------------------------------------------------------------ presentation
Stride(xs, step) ==
  [k \in 1..(((Len(xs) - 1) \div step) + 1) |-> xs[1 + (k - 1) * step]]

\* lines 225-231: xs[::n // max_frames] when n > max_frames
Downsample(xs) ==
  IF Len(xs) > max_frames THEN Stride(xs, Len(xs) \div max_frames) ELSE xs

Animated(result) ==
  [xs |-> Downsample([i \in DOMAIN result.trajectory |-> result.trajectory[i][1]]),
   ys |-> Downsample([i \in DOMAIN result.trajectory |-> result.trajectory[i][2]])]

\* one row of update_table (the numbers shown; flight time = len * dt)
Row(r) == [dt |-> r.dt, range |-> r.range, max_height |-> r.max_height,
           final_speed |-> r.final_speed,
           flight_time |-> Mul(FromInt(Len(r.trajectory)), r.dt)]

Result ==
  [dt |-> params.dt, trajectory |-> trajectory, speeds |-> speeds,
   range |-> x, max_height |-> max_height,
   final_speed |-> speeds[Len(speeds)]]

Stored_front(rs, r) == <<r>> \o rs
Stored(rs, r) == Append(rs, r)

\* lines 202-214: the loop has ended; store, animate and show the result.
\* The drawing calls are modelled by the points they are handed.
Finish ==
  /\ pc = "loop"
  /\ ~LoopGuard(y)
  /\ results' = Stored(results, Result)
  /\ ever' = Append(ever, [params |-> params, result |-> Result])
  /\ color_index' = color_index + 1
  /\ anim' = Animated(Result)
  /\ table' = [i \in DOMAIN results' |-> Row(results'[i])]
  /\ info' = Row(Result)
  /\ pc' = "idle"
  /\ Discard

\* lines 285-299
clear_results ==
  /\ Idle
  /\ results' = <<>>
  /\ color_index' = 0
  /\ table' = <<>>
  /\ info' = "none"
  /\ UNCHANGED <<pc, locals, anim, ever>>

\* ---------------------------------------------------------- parameter sets
\* The fields are any finite floats.  Next to everyday values the sets hold
\* values at the ends of the format's range, where products overflow to an
\* infinity or underflow to zero.
V0s == {Zero, FromInt(10), FromInt(96), Norm(1, 0 - 50), Norm(1, 50),
        Norm(1, 70)}
Masses == {FromInt(1), Norm(1, 0 - 80)}
Rhos == {Lit(129, 100), Norm(1, 30)}
Cds == {Zero, Lit(15, 100), FromInt(1)}
Areas == {Lit(1, 100), Lit(1, 2)}
Dts == {Neg(FromInt(1)), Neg(Norm(1, 0 - 110)), Zero, Lit(1, 4), FromInt(1)}

EngineParams ==
  [v0 : V0s, angle : Angles, mass : Masses, rho : Rhos, Cd : Cds,
   A : Areas, dt : Dts]

ValidParams ==
  [v0 : {FromInt(10), FromInt(96)}, angle : {60}, mass : {FromInt(1)},
   rho : {Lit(129, 100)}, Cd : {Zero, FromInt(1)}, A : Areas,
   dt : {Lit(1, 4), FromInt(1)}]

\* what the form is filled with: everyday values, and one initial speed
\* whose square overflows, so that line 184 raises
AppParams ==
  [v0 : {FromInt(10)}, angle : {0 - 45, 45}, mass : {FromInt(1)},
   rho : {Lit(129, 100)}, Cd : {Zero, FromInt(1)}, A : {Lit(1, 2)},
   dt : {Lit(1, 4), FromInt(1)}]
  \cup
  [v0 : {Norm(1, 70)}, angle : {45}, mass : {FromInt(1)},
   rho : {Lit(129, 100)}, Cd : {FromInt(1)}, A : {Lit(1, 2)},
   dt : {Lit(1, 4)}]

\* -------------------------------------------------------- specifications
Blank ==
  /\ params = NoParams
  /\ x = Zero /\ y = Zero /\ vx = Zero /\ vy = Zero /\ t = Zero
  /\ max_height = Zero /\ trajectory = <<>> /\ speeds = <<>>

Init ==
  /\ pc = "idle"
  /\ Blank
  /\ results = <<>> /\ ever = <<>> /\ color_index = 0
  /\ anim = NoAnim /\ table = <<>> /\ info = "none"

Next ==
  \/ \E p \in AppParams : run_simulation(p)
  \/ LoopStep
  \/ Finish
  \/ clear_results

Spec == Init /\ [][Next]_vars

\* one call of run_simulation on a fresh application, any parameters
FreshCall(P) ==
  \E p \in P :
    /\ params = p
    /\ x = StartX /\ y = Zero
    /\ vx = StartVx(p) /\ vy = StartVy(p)
    /\ trajectory = << <<StartX, Zero>> >>
    /\ speeds = << StartSpeed(p) >>
    /\ t = Zero /\ max_height = StartMaxHeight
    /\ pc = "loop"
    /\ results = <<>> /\ ever = <<>> /\ color_index = 0
    /\ anim = NoAnim /\ table = <<>> /\ info = "none"

EngineInit == FreshCall(EngineParams)
EngineNext == LoopStep \/ Finish

EngineSpec == EngineInit /\ [][EngineNext]_vars

\* one call with valid parameters; the interpreter keeps executing the loop,
\* the run is never suspended
ValidInit == FreshCall(ValidParams)
ValidFair == ValidInit /\ [][EngineNext]_vars /\ WF_vars(EngineNext)

\* animate_new_trajectory alone, on a stored result of any length
animate_new_trajectory ==
  /\ pc = "animate"
  /\ anim' = Animated(results[Len(results)])
  /\ color_index' = color_index + 1
  /\ pc' = "idle"
  /\ UNCHANGED <<locals, results, table, info, ever>>

\* a trajectory of n samples; the frame selection reads only its length
Samples(n) ==
  [i \in 1..n |-> IF i < n THEN <<FromInt(i - 1), Zero>>
                  ELSE <<FromInt(i - 1), Neg(FromInt(1))>>]

AnimInit ==
  \E n \in 2..MaxLen :
    /\ pc = "animate"
    /\ Blank
    /\ results = << [dt |-> Lit(1, 4), trajectory |-> Samples(n),
                     speeds |-> [i \in 1..n |-> FromInt(1)],
                     range |-> FromInt(n - 1), max_height |-> Zero,
                     final_speed |-> FromInt(1)] >>
    /\ ever = <<>> /\ color_index = 0
    /\ anim = NoAnim /\ table = <<>> /\ info = "none"

AnimNext == animate_new_trajectory

AnimSpec == AnimInit /\ [][AnimNext]_vars

\* ------------------------------------------------------------- properties
\* the constraints of the SimulationParameters table
Valid(p) ==
  /\ Greater(p.dt, Zero) /\ Greater(p.v0, Zero) /\ Greater(p.mass, Zero)
  /\ GreaterEq(p.rho, Zero) /\ GreaterEq(p.Cd, Zero) /\ GreaterEq(p.A, Zero)

LastOf(seq) == seq[Len(seq)]
Heights(r) == {r.trajectory[k][2] : k \in DOMAIN r.trajectory}

\* the loop cannot exit any more: an iteration leaves vx and vy as they are
\* and does not lower y, so the next iteration starts from the same velocity
\* at a height that is no lower, and so does every iteration after it
Stuck ==
  /\ pc = "loop"
  /\ LoopGuard(y)
  /\ LET s == Stepped(vx, vy, x, y, t, params)
     IN  /\ ~s.raised
         /\ s.vx = vx /\ s.vy = vy
         /\ GreaterEq(s.y, y)

\* C1: with valid parameters the loop always terminates: a sample with
\* y < 0 is eventually computed and a complete result is produced; so a
\* valid run is never in a state from which the loop cannot exit.
C1_Terminates ==
  /\ (pc = "loop" /\ Valid(params))
       ~> (pc = "idle" /\ results # <<>>
           /\ IsNeg(LastOf(LastOf(results).trajectory)[2]))
  /\ [](Valid(params) => ~Stuck)

C3_LastSampleOnlyNegative ==
  \A i \in DOMAIN results :
    LET r == results[i]
        n == Len(r.trajectory)
    IN  /\ IsNeg(r.trajectory[n][2])
        /\ \A k \in 1..(n - 1) : GreaterEq(r.trajectory[k][2], Zero)
        /\ r.range = r.trajectory[n][1]
        /\ r.final_speed = r.speeds[Len(r.speeds)]

\* What holds of every produced result, a NaN height included: the last
\* sample is the only one that fails y >= 0, range is its x and finalSpeed
\* is the last entry of speeds.
LastSampleEndsLoop ==
  \A i \in DOMAIN results :
    LET r == results[i]
        n == Len(r.trajectory)
    IN  /\ ~GreaterEq(r.trajectory[n][2], Zero)
        /\ \A k \in 1..(n - 1) : GreaterEq(r.trajectory[k][2], Zero)
        /\ r.range = r.trajectory[n][1]
        /\ r.final_speed = r.speeds[Len(r.speeds)]

\* C4: maxHeight >= y for every sample of a produced result, and maxHeight
\* is the y of one of the samples: it is exactly the largest y.
C4_MaxHeightIsMaximum ==
  \A i \in DOMAIN results :
    LET r == results[i]
    IN  /\ r.max_height \in Heights(r)
        /\ \A h \in Heights(r) : GreaterEq(r.max_height, h)

\* What holds of every produced result: maxHeight is the y of one of the
\* samples and no sample that is a number lies above it.
MaxHeightOfNumbers ==
  \A i \in DOMAIN results :
    LET r == results[i]
    IN  /\ r.max_height \in Heights(r)
        /\ \A h \in Heights(r) : IsNaN(h) \/ GreaterEq(r.max_height, h)

\* C5: runs with identical parameters produce identical results, whatever
\* runs and clear_results calls came before them.
C5_Deterministic ==
  \A i, j \in DOMAIN ever :
    ever[i].params = ever[j].params => ever[i].result = ever[j].result

\* the same parameters ran first and third, other parameters ran between
\* them, and the history was cleared before the third run
C5_Witness ==
  /\ Len(ever) = 3
  /\ ever[1].params = ever[3].params
  /\ ever[2].params # ever[1].params
  /\ Len(ever[3].result.trajectory) >= 3
  /\ Len(results) = 1 /\ color_index = 1

\* C6: of two runs that differ only in dragCoefficient, the one with the
\* larger coefficient never has the larger range.
C6_DragMonotone ==
  \A i, j \in DOMAIN ever :
    (/\ [ever[i].params EXCEPT !.Cd = Zero] = [ever[j].params EXCEPT !.Cd = Zero]
     /\ Less(ever[i].params.Cd, ever[j].params.Cd))
    => ~Greater(ever[j].result.range, ever[i].result.range)

\* C7 as stated: the history only grows; whatever was appended stays at its
\* position after any run_simulation or clear_results.
C7_AppendOnly ==
  [][/\ Len(results') >= Len(results)
     /\ SubSeq(results', 1, Len(results)) = results]_vars

\* C7 amended: the history is append-only between clears: a step leaves it
\* unchanged, a completed run appends exactly one result at the end, and
\* clear_results empties it and resets the colour index.
C7_AppendOnlyUntilCleared ==
  [][/\ \/ results' = results
        \/ /\ Len(results') = Len(results) + 1
           /\ SubSeq(results', 1, Len(results)) = results
        \/ /\ results' = <<>>
           /\ color_index' = 0
     /\ (pc = "loop" /\ pc' = "idle") =>
          /\ Len(results') = Len(results) + 1
          /\ SubSeq(results', 1, Len(results)) = results
          /\ LastOf(results') = LastOf(ever').result]_vars

C7_Witness ==
  /\ Len(ever) = 2
  /\ Len(results) = 1 /\ color_index = 1
  /\ results[1] = ever[2].result
  /\ ever[1].result # ever[2].result

\* the step C8 specifies, from the unprimed to the primed variables
EulerStep ==
  LET p == params
      v == Sqrt(Add(Mul(vx, vx), Mul(vy, vy)))
      drag == Mul(Mul(Mul(Mul(Lit(1, 2), p.rho), p.Cd), p.A), Mul(v, v))
      ax == IF v = Zero THEN Zero
            ELSE Div(Mul(Neg(drag), vx), Mul(p.mass, v))
      ay == IF v = Zero THEN Neg(Lit(981, 100))
            ELSE Sub(Neg(Lit(981, 100)), Div(Mul(drag, vy), Mul(p.mass, v)))
  IN  /\ vx' = Add(vx, Mul(ax, p.dt))
      /\ vy' = Add(vy, Mul(ay, p.dt))
      /\ x' = Add(x, Mul(vx', p.dt))
      /\ y' = Add(y, Mul(vy', p.dt))
      /\ LastOf(trajectory') = <<x', y'>>
      /\ LastOf(speeds') = Sqrt(Add(Mul(vx', vx'), Mul(vy', vy')))

\* the speed at the start of the step is a number: v = 0 or v > 0
SpeedIsNumber ==
  LET v == Sqrt(Add(Mul(vx, vx), Mul(vy, vy)))
  IN  v = Zero \/ Greater(v, Zero)

\* C8: every iteration is the explicit Euler step: acceleration from the
\* velocity at the start of the step (the drag law when v > 0, gravity alone
\* when v = 0), velocity from that acceleration, position from the updated
\* velocity, the sample and speed recorded being the updated values; and no
\* iteration divides by zero: none ends in an exception.
C8_EulerStep ==
  [][(pc = "loop" /\ pc' # "idle" /\ SpeedIsNumber) =>
       (pc' = "loop" /\ EulerStep)]_vars

\* What holds of every iteration: one that completes is the step C8
\* specifies, and one that starts at v = 0 completes.
CompletedStepIsEuler ==
  [][(pc = "loop" /\ pc' # "idle" /\ SpeedIsNumber) =>
       /\ pc' = "loop" => EulerStep
       /\ Sqrt(Add(Mul(vx, vx), Mul(vy, vy))) = Zero => pc' = "loop"]_vars

\* the fields other than timeStep are well-formed
WellFormed(p) ==
  /\ GreaterEq(p.v0, Zero) /\ Greater(p.mass, Zero)
  /\ GreaterEq(p.rho, Zero) /\ GreaterEq(p.Cd, Zero) /\ GreaterEq(p.A, Zero)

\* C9 as stated: a run with timeStep <= 0 that terminates does so after
\* exactly one iteration, never after two or more.
C9_OneIterationOrNone ==
  \A i \in DOMAIN ever :
    LET p == ever[i].params
    IN  (WellFormed(p) /\ ~Greater(p.dt, Zero)) =>
          Len(ever[i].result.trajectory) = 2

\* C9 amended: with timeStep = 0 the height stays 0 while it is a number,
\* and the loop exits only when an overflow has made it NaN; with
\* timeStep < 0, initialSpeed >= 0 and a launch angle whose sine is not
\* negative, the first computed height is never positive, and the loop
\* exits after its first iteration unless that height underflowed to zero.
C9_OneIterationWhenLaunchedUp ==
  /\ (pc = "loop" /\ params.dt = Zero) => (y = Zero \/ IsNaN(y))
  /\ \A i \in DOMAIN ever :
       ever[i].params.dt = Zero =>
         IsNaN(LastOf(ever[i].result.trajectory)[2])
  /\ (/\ pc = "loop" /\ Len(trajectory) >= 2
      /\ WellFormed(params) /\ IsNeg(params.dt)
      /\ ~IsNeg(Sin(params.angle)))
       => /\ ~Greater(trajectory[2][2], Zero)
          /\ (Len(trajectory) >= 3 => trajectory[2][2] = Zero)
  /\ \A i \in DOMAIN ever :
       LET p == ever[i].params
           r == ever[i].result
       IN  (WellFormed(p) /\ IsNeg(p.dt) /\ ~IsNeg(Sin(p.angle))) =>
             /\ ~Greater(r.trajectory[2][2], Zero)
             /\ (Len(r.trajectory) = 2 \/ r.trajectory[2][2] = Zero)

C9_Witness ==
  /\ ever # <<>>
  /\ IsNeg(ever[1].params.dt)
  /\ ever[1].params.angle = 45
  /\ Greater(ever[1].params.Cd, Zero) /\ Greater(ever[1].params.rho, Zero)
  /\ Len(ever[1].result.trajectory) = 2
  /\ IsNeg(ever[1].result.trajectory[2][2])
  /\ IsFinite(ever[1].result.trajectory[2][2])

\* C10: the animation is handed at most max_frames points, and the stored
\* trajectory is left as it was.
C10_FrameBudget ==
  /\ []((pc = "idle" /\ results # <<>>) =>
          /\ Len(anim.xs) <= max_frames
          /\ Len(anim.ys) <= max_frames)
  /\ [][pc = "animate" => results' = results]_vars

====
